---- MODULE Spec2Model ----
(***************************************************************************)
(* Relay server of src/src/tcp/tcp.go: the accept goroutine of every       *)
(* connection (server.run, server.clientCommunication), the relay loop of  *)
(* every joined connection (server.handleRoomConnection), the registry     *)
(* (roomMap: a map guarded by one mutex) and the janitor                   *)
(* (server.deleteOldRooms, server.deleteRoom).                             *)
(*                                                                         *)
(* The clients are the environment: what a Receive returns is drawn from   *)
(* small sets of payloads, and a peer may drop its socket at any time.     *)
(* A Send or Receive on a connection fails exactly when the peer dropped   *)
(* the socket or the server closed the connection.                         *)
(***************************************************************************)
EXTENDS Integers, Sequences, FiniteSets, TLC

\* ---- bounds of the model
NumConns == 3          \* connections the listener accepts
MaxBanner == 3         \* length of the banner texts tried
MaxCalls == 2          \* calls of the client functions on the relay's address
MaxPassword == 2       \* length of the configured passwords tried
MaxPlaintext == 3      \* length of the password plaintexts tried
MaxEvents == 2         \* events of the environment besides a regular handshake:
                       \* a frame arrives, a peer drops its socket, a client
                       \* departs from the handshake, a cleanup interval passes,
                       \* the listener fails

\* ---- program constants and configuration
pingRoom == "pinglkasjdlfjsaldjf"
roomTTL == 0           \* s.roomTTL, in cleanup intervals

Conns == 1..NumConns
RoomNames == {"r1", pingRoom}
NoRoom == ""

\* owners of the registry mutex: a relay loop is named by its connection
Free == -1
JanitorId == 0

\* the passwords a server may be configured with, and the plaintexts a
\* client may present
Passwords == UNION {[1..n -> {"p", " "}] : n \in 0..MaxPassword}
Plaintexts == UNION {[1..n -> {"p", " "}] : n \in 0..MaxPlaintext}
\* first payloads a client may send: "ping", a well-formed PAKE round 1,
\* or bytes that pake.Update rejects
InitPayloads == {"ping", "pake", "malformed"}

VARIABLES
  rooms,          \* s.rooms.rooms: room name -> [conns, opened]
  mu,             \* s.rooms.Mutex: Free or the goroutine holding it
  acc,            \* position of the accept goroutine of each connection
  room,           \* clientCommunication's named result room
  err,            \* clientCommunication's named result err (TRUE: non-nil)
  branch,         \* which arm of the join the connection took
  passwordBytes,  \* the decrypted password plaintext
  relay,          \* position of handleRoomConnection of each connection
  data,           \* the frame the relay loop holds
  nframes,        \* frames received from each connection so far
  closed,         \* the server called Close on the connection
  alive,          \* the peer still holds its end of the socket
  outbox,         \* every Send the server made on the connection, in order
  jpc,            \* position of the janitor goroutine
  roomsToDelete,  \* deleteOldRooms' local list
  ticker,         \* ticker.C holds a tick
  stop,           \* server.start: run is running, or the deferred
                  \* stopRoomDeletion is sending, or it has returned
  now,            \* time.Now(), in cleanup intervals
  events,         \* the events of the environment so far
  recvLog,        \* history: for every frame received, who was attached then
  openedLog,      \* history: every room ever created, with its timestamp
  banner,         \* s.banner, the configured banner text
  password,       \* s.password, the configured password
  call,           \* the call of PingServer or ConnectToTCPServer in progress
  c2s             \* what the caller sent on each connection and the server
                  \* has not received yet

regVars == <<rooms, mu>>
accVars == <<acc, room, err, branch, passwordBytes>>
relayVars == <<relay, data, nframes, recvLog>>
connVars == <<closed, alive, outbox>>
janitorVars == <<jpc, roomsToDelete, ticker, stop>>
envVars == <<now, events>>
cfgVars == <<banner, password>>
cliVars == <<cfgVars, call, c2s>>

vars == <<rooms, mu, acc, room, err, branch, passwordBytes, relay, data,
          nframes, closed, alive, outbox, jpc, roomsToDelete, ticker, stop,
          now, events, recvLog, openedLog, banner, password, call, c2s>>

\* ---- texts, as sequences of characters
Sep == <<"|", "|", "|">>
Ok == <<"o", "k">>
Pong == <<"p", "o", "n", "g">>
BadPassword == <<"b", "a", "d", " ", "p", "a", "s", "s", "w", "o", "r", "d">>
\* B.Bytes(), the PAKE round 2 payload
PakeB == <<"B">>
\* the banner texts a server may be configured with
Banners == UNION {[1..n -> {"a", "|"}] : n \in 0..MaxBanner}
\* c.Connection().RemoteAddr().String() of each accepted connection
RemoteAddr(c) == <<"h", ":">> \o <<<<"1", "2", "3", "4", "5", "6", "7", "8", "9">>[c]>>

\* strings.Index, counting from 1; 0 when sep does not occur in s
Index(s, sep) ==
  LET hits == {i \in 1..(Len(s) - Len(sep) + 1) :
                 SubSeq(s, i, i + Len(sep) - 1) = sep}
  IN IF hits = {} THEN 0 ELSE CHOOSE i \in hits : \A j \in hits : i <= j

\* s is an initial part of t
IsPrefixOf(s, t) == Len(s) <= Len(t) /\ SubSeq(t, 1, Len(s)) = s

\* strings.Contains
Contains(s, sep) == Index(s, sep) # 0

\* strings.Split for a non-empty separator
RECURSIVE Split(_, _)
Split(s, sep) ==
  LET i == Index(s, sep)
  IN IF i = 0 THEN <<s>>
     ELSE <<SubSeq(s, 1, i - 1)>> \o Split(SubSeq(s, i + Len(sep), Len(s)), sep)

\* a banner message with the address ahead of the banner
BannerMessageAddrFirst(b, addr) ==
  addr \o Sep \o (IF Len(b) = 0 THEN Ok ELSE b)

\* the plaintext clientCommunication encrypts after a good password:
\* banner + "|||" + remote address, with "ok" for an empty banner
BannerMessage(b, addr) == (IF Len(b) = 0 THEN Ok ELSE b) \o Sep \o addr

\* ---- messages
NoData == [kind |-> "none", from |-> 0, n |-> 0]
\* plaintexts a client may present as the password
PasswordInputs == {password, <<"b", "a", "d">>}

Frame(c, k) == [kind |-> "frame", from |-> c, n |-> k]
Ctl(kind) == [kind |-> kind, from |-> 0, n |-> 0]

\* comm.Send on connection c succeeds
SendWorks(c) == alive[c] /\ ~closed[c]
\* comm.Receive on connection c returns data
ReceiveWorks(c) == alive[c] /\ ~closed[c]

\* a Send that puts the message ahead of the ones sent before
SentFront(ob, c, m) ==
  [ob EXCEPT ![c] = <<[msg |-> m, ok |-> alive[c] /\ ~closed[c]]>> \o @]

\* the outbox after the server called Send(m) on connection c
Sent(ob, c, m) ==
  [ob EXCEPT ![c] = Append(@, [msg |-> m, ok |-> alive[c] /\ ~closed[c]])]

\* the environment may still act / acts
CanAct == events < MaxEvents
Acts == events' = events + 1

\* ---- pure helpers
IsSpace(ch) == ch \in {" ", "\t", "\n", "\r"}

RECURSIVE TrimLeft(_)
TrimLeft(s) ==
  IF s # <<>> /\ IsSpace(Head(s)) THEN TrimLeft(Tail(s)) ELSE s

RECURSIVE TrimRight(_)
TrimRight(s) ==
  IF s # <<>> /\ IsSpace(s[Len(s)]) THEN TrimRight(SubSeq(s, 1, Len(s) - 1))
  ELSE s

\* strings.TrimSpace
TrimSpace(s) == TrimRight(TrimLeft(s))

\* the password test with the comparison inverted
PasswordMatchesInverted(p) == TrimSpace(p) # password

\* the password test of clientCommunication
PasswordMatches(p) == TrimSpace(p) = password

\* the members of a room as a set
Range(s) == {s[i] : i \in 1..Len(s)}
Members(rms, r) == IF r \in DOMAIN rms THEN Range(rms[r].conns) ELSE {}
IsMember(c) == \E r \in DOMAIN rooms : c \in Range(rooms[r].conns)

\* a join that appends the connection twice to an existing room
JoinRoomTwice(rms, r, c, t) ==
  IF r \notin DOMAIN rms
  THEN [x \in DOMAIN rms \cup {r} |->
          IF x = r THEN [conns |-> <<c>>, opened |-> t] ELSE rms[x]]
  ELSE [rms EXCEPT ![r].conns = Append(Append(@, c), c)]

\* a join that leaves the timestamp of a new room at the zero time
JoinRoomStale(rms, r, c, t) ==
  IF r \notin DOMAIN rms
  THEN [x \in DOMAIN rms \cup {r} |->
          IF x = r THEN [conns |-> <<c>>, opened |-> 0] ELSE rms[x]]
  ELSE [rms EXCEPT ![r].conns = Append(@, c)]

\* a join that puts the connection at the front of an existing room
JoinRoomFront(rms, r, c, t) ==
  IF r \notin DOMAIN rms
  THEN [x \in DOMAIN rms \cup {r} |->
          IF x = r THEN [conns |-> <<c>>, opened |-> t] ELSE rms[x]]
  ELSE [rms EXCEPT ![r].conns = <<c>> \o @]

\* a join that sets the timestamp of an existing room to the time of the join
JoinRoomRefresh(rms, r, c, t) ==
  IF r \notin DOMAIN rms
  THEN [x \in DOMAIN rms \cup {r} |->
          IF x = r THEN [conns |-> <<c>>, opened |-> t] ELSE rms[x]]
  ELSE [rms EXCEPT ![r] = [conns |-> Append(@.conns, c), opened |-> t]]

\* the join of clientCommunication, between Lock and Unlock
JoinRoom(rms, r, c, t) ==
  IF r \notin DOMAIN rms
  THEN [x \in DOMAIN rms \cup {r} |->
          IF x = r THEN [conns |-> <<c>>, opened |-> t] ELSE rms[x]]
  ELSE [rms EXCEPT ![r].conns = Append(@, c)]

RECURSIVE Without(_, _)
Without(s, c) ==
  IF s = <<>> THEN <<>>
  ELSE IF Head(s) = c THEN Without(Tail(s), c)
  ELSE <<Head(s)>> \o Without(Tail(s), c)

\* a deleteConnFromRoom that keeps a room without members
RemoveConnKeepEmpty(rms, r, c) ==
  IF r \notin DOMAIN rms THEN rms
  ELSE [rms EXCEPT ![r].conns = Without(@, c)]

\* a deleteConnFromRoom that deletes the room whoever is left in it
RemoveConnDeletesRoom(rms, r, c) ==
  IF r \notin DOMAIN rms THEN rms
  ELSE [x \in DOMAIN rms \ {r} |-> rms[x]]

\* deleteConnFromRoom, between Lock and the deferred Unlock
RemoveConn(rms, r, c) ==
  IF r \notin DOMAIN rms THEN rms
  ELSE IF Without(rms[r].conns, c) = <<>>
       THEN [x \in DOMAIN rms \ {r} |-> rms[x]]
       ELSE [rms EXCEPT ![r].conns = Without(@, c)]

\* a lookup that visits the conns of every room
RECURSIVE ConnsOf(_, _)
ConnsOf(rms, names) ==
  IF names = {} THEN <<>>
  ELSE LET x == CHOOSE y \in names : TRUE
       IN rms[x].conns \o ConnsOf(rms, names \ {x})

RoomConnsAnyRoom(rms, r) == ConnsOf(rms, DOMAIN rms)

\* the broadcast's lookup  r, ok := s.rooms.rooms[room] : the conns to visit
RoomConns(rms, r) == IF r \in DOMAIN rms THEN rms[r].conns ELSE <<>>

\* a test that lets the sender through
IsRecipientAll(conn, sender) == TRUE

\* the broadcast loop's test  conn != sender
IsRecipient(conn, sender) == conn # sender

\* a loop that returns at the first Send that fails
RECURSIVE SendAllAbort(_, _, _, _)
SendAllAbort(ob, conns, sender, m) ==
  IF conns = <<>> THEN ob
  ELSE IF ~IsRecipient(Head(conns), sender)
       THEN SendAllAbort(ob, Tail(conns), sender, m)
       ELSE IF SendWorks(Head(conns))
            THEN SendAllAbort(Sent(ob, Head(conns), m), Tail(conns), sender, m)
            ELSE Sent(ob, Head(conns), m)

\* the loop  for _, conn := range r.conns : Send to every conn but the sender;
\* the result of a Send is ignored
RECURSIVE SendAll(_, _, _, _)
SendAll(ob, conns, sender, m) ==
  IF conns = <<>> THEN ob
  ELSE SendAll(IF IsRecipient(Head(conns), sender)
               THEN Sent(ob, Head(conns), m) ELSE ob,
               Tail(conns), sender, m)

\* every ordering of a set, as Go's map iteration may produce it
Orderings(S) ==
  {s \in [1..Cardinality(S) -> S] : \A i, j \in 1..Cardinality(S) :
                                       i # j => s[i] # s[j]}

\* a sweep with the comparison reversed
ExpiredReversed(rms, t) == {r \in DOMAIN rms : t - rms[r].opened < roomTTL}

\* the rooms the sweep selects: time.Since(opened) > s.roomTTL
Expired(rms, t) == {r \in DOMAIN rms : t - rms[r].opened > roomTTL}

\* a deleteRoom that leaves the first member of the room open
CloseAllButFirst(cl, conns) ==
  [c \in Conns |-> cl[c] \/ (conns # <<>> /\ c \in Range(Tail(conns)))]

\* the connections deleteRoom closes
CloseAll(cl, conns) == [c \in Conns |-> cl[c] \/ c \in Range(conns)]

\* no call of the client functions is in progress
NoCall ==
  [fn |-> "none", addr |-> "none", conn |-> 0, password |-> <<>>,
   room |-> NoRoom, pc |-> "idle", rd |-> 0, sent |-> <<>>, got |-> <<>>,
   banner |-> <<>>, ipaddr |-> <<>>, err |-> <<>>]

ServerInit ==
  /\ rooms = <<>>
  /\ mu = Free
  /\ acc = [c \in Conns |-> "unborn"]
  /\ room = [c \in Conns |-> NoRoom]
  /\ err = [c \in Conns |-> FALSE]
  /\ branch = [c \in Conns |-> "none"]
  /\ passwordBytes = [c \in Conns |-> <<>>]
  /\ relay = [c \in Conns |-> "none"]
  /\ data = [c \in Conns |-> NoData]
  /\ nframes = [c \in Conns |-> 0]
  /\ closed = [c \in Conns |-> FALSE]
  /\ alive = [c \in Conns |-> TRUE]
  /\ outbox = [c \in Conns |-> <<>>]
  /\ jpc = "select"
  /\ roomsToDelete = <<>>
  /\ ticker = FALSE
  /\ stop = "running"
  /\ now = 0
  /\ events = 0
  /\ recvLog = {}
  /\ openedLog = {}
  /\ call = NoCall
  /\ c2s = [c \in Conns |-> <<>>]

\* a server started without a banner
Init == ServerInit /\ banner = <<>> /\ password = <<"p", "w">>

\* ---- the accept goroutine: server.run's closure and clientCommunication

\* a closure of server.run without the test  room == pingRoom
ReturnPingChecked(c, r, e) ==
  /\ acc' = [acc EXCEPT ![c] = IF e THEN "Close" ELSE "Check"]
  /\ room' = [room EXCEPT ![c] = r]
  /\ err' = [err EXCEPT ![c] = e]

\* a closure of server.run without the test  errCommunication != nil
ReturnErrorUnchecked(c, r, e) ==
  /\ acc' = [acc EXCEPT ![c] = IF r = pingRoom THEN "Close" ELSE "Check"]
  /\ room' = [room EXCEPT ![c] = r]
  /\ err' = [err EXCEPT ![c] = e]

\* clientCommunication returns (room, err) to the closure of server.run,
\* which tests them: it will close the connection, or check the room
Return(c, r, e) ==
  /\ acc' = [acc EXCEPT ![c] = IF e \/ r = pingRoom THEN "Close" ELSE "Check"]
  /\ room' = [room EXCEPT ![c] = r]
  /\ err' = [err EXCEPT ![c] = e]

\* clientCommunication has returned for connection c
HasReturned(c) == acc[c] \in {"Close", "Check", "Done"}

\* server.Accept returns the next connection and spawns its goroutine.
\* Connections are numbered in the order the listener accepts them, and the
\* clients dial one after the other: a client dials when clientCommunication
\* has returned for the connections before it (their relay loops, the rest of
\* their accept goroutines and the janitor run concurrently with it).
Accept(c) ==
  /\ acc[c] = "unborn"
  /\ stop = "running"
  /\ \A d \in Conns : d < c => HasReturned(d)
  /\ acc' = [acc EXCEPT ![c] = "AwaitInit"]
  /\ UNCHANGED <<room, err, branch, passwordBytes, openedLog>>
  /\ UNCHANGED <<regVars, relayVars, connVars, janitorVars, envVars>>
  /\ UNCHANGED cliVars

\* clientCommunication after its first Receive returned the payload p: ping,
\* or PAKE round 1 and 2 up to the session key
OnInit(c, p) ==
  \/ /\ p = "ping"
     /\ outbox' = Sent(outbox, c, Ctl("pong"))
     /\ Return(c, pingRoom, FALSE)
  \/ /\ p = "malformed"
     /\ Return(c, NoRoom, TRUE)
     /\ UNCHANGED outbox
  \/ /\ p = "pake"
     /\ outbox' = Sent(outbox, c, Ctl("pake2"))
     /\ IF SendWorks(c)
        THEN /\ acc' = [acc EXCEPT ![c] = "AwaitSalt"]
             /\ UNCHANGED <<room, err>>
        ELSE Return(c, NoRoom, TRUE)

\* the first Receive, from a client of any kind
RecvInit(c) ==
  /\ acc[c] = "AwaitInit"
  /\ IF ~ReceiveWorks(c)
     THEN Return(c, NoRoom, TRUE) /\ UNCHANGED <<outbox, events>>
     ELSE \E p \in InitPayloads :
            /\ p # "pake" => CanAct
            /\ events' = IF p # "pake" THEN events + 1 ELSE events
            /\ OnInit(c, p)
  /\ UNCHANGED <<branch, passwordBytes, closed, alive, now, openedLog>>
  /\ UNCHANGED <<regVars, relayVars, janitorVars>>
  /\ UNCHANGED cliVars

\* clientCommunication after it received the salt: derive the encryption key
OnSalt(c) ==
  /\ acc' = [acc EXCEPT ![c] = "AwaitPassword"]
  /\ UNCHANGED <<room, err>>

\* receive the salt, from a client of any kind
RecvSalt(c) ==
  /\ acc[c] = "AwaitSalt"
  /\ IF ~ReceiveWorks(c)
     THEN Return(c, NoRoom, TRUE) /\ UNCHANGED events
     ELSE \/ \* crypt.New fails on the session key and the salt
             /\ CanAct /\ Acts
             /\ Return(c, NoRoom, TRUE)
          \/ OnSalt(c) /\ UNCHANGED events
  /\ UNCHANGED <<branch, passwordBytes, now, openedLog>>
  /\ UNCHANGED <<regVars, relayVars, connVars, janitorVars>>
  /\ UNCHANGED cliVars

\* clientCommunication after it decrypted the password plaintext p: compare
\* it, answer with the banner or with "bad password"
OnPassword(c, p) ==
  /\ passwordBytes' = [passwordBytes EXCEPT ![c] = p]
  /\ IF ~PasswordMatches(p)
     THEN /\ outbox' = Sent(outbox, c, Ctl("bad password"))
          \* err is overwritten by the result of Send
          /\ Return(c, NoRoom, ~SendWorks(c))
     ELSE /\ outbox' = Sent(outbox, c, Ctl("banner"))
          /\ IF SendWorks(c)
             THEN /\ acc' = [acc EXCEPT ![c] = "AwaitRoom"]
                  /\ UNCHANGED <<room, err>>
             ELSE Return(c, NoRoom, TRUE)

\* receive and decrypt the password, from a client of any kind
RecvPassword(c) ==
  /\ acc[c] = "AwaitPassword"
  /\ IF ~ReceiveWorks(c)
     THEN /\ Return(c, NoRoom, TRUE)
          /\ UNCHANGED <<outbox, passwordBytes, events>>
     ELSE \/ \* crypt.Decrypt fails on the ciphertext
             /\ CanAct /\ Acts
             /\ Return(c, NoRoom, TRUE)
             /\ UNCHANGED <<outbox, passwordBytes>>
          \/ \E p \in PasswordInputs :
               /\ p # password => CanAct
               /\ events' = IF p # password THEN events + 1 ELSE events
               /\ OnPassword(c, p)
  /\ UNCHANGED <<branch, closed, alive, now, openedLog>>
  /\ UNCHANGED <<regVars, relayVars, janitorVars>>
  /\ UNCHANGED cliVars

\* clientCommunication after it decrypted the room name r
OnRoom(c, r) ==
  /\ acc' = [acc EXCEPT ![c] = "Join"]
  /\ room' = [room EXCEPT ![c] = r]
  /\ UNCHANGED err

\* receive and decrypt the room name, from a client of any kind
RecvRoom(c) ==
  /\ acc[c] = "AwaitRoom"
  /\ IF ~ReceiveWorks(c)
     THEN Return(c, NoRoom, TRUE) /\ UNCHANGED events
     ELSE \/ \* crypt.Decrypt fails on the ciphertext
             /\ CanAct /\ Acts
             /\ Return(c, NoRoom, TRUE)
          \/ \E r \in RoomNames : OnRoom(c, r) /\ UNCHANGED events
  /\ UNCHANGED <<branch, passwordBytes, now, openedLog>>
  /\ UNCHANGED <<regVars, relayVars, connVars, janitorVars>>
  /\ UNCHANGED cliVars

\* Lock; create the room or append to it; Unlock
Join(c) ==
  /\ acc[c] = "Join"
  /\ mu = Free
  /\ rooms' = JoinRoom(rooms, room[c], c, now)
  /\ branch' = [branch EXCEPT ![c] =
                  IF room[c] \in DOMAIN rooms THEN "appended" ELSE "created"]
  /\ openedLog' = IF room[c] \in DOMAIN rooms THEN openedLog
                  ELSE openedLog \cup {<<room[c], now>>}
  /\ acc' = [acc EXCEPT ![c] = "SendOk"]
  /\ UNCHANGED <<mu, room, err, passwordBytes>>
  /\ UNCHANGED <<relayVars, connVars, janitorVars, envVars>>
  /\ UNCHANGED cliVars

\* send the encrypted "ok"; on failure only the append arm calls
\* deleteConnFromRoom
SendOk(c) ==
  /\ acc[c] = "SendOk"
  /\ outbox' = Sent(outbox, c, Ctl("ok"))
  /\ IF SendWorks(c)
     THEN /\ acc' = [acc EXCEPT ![c] = "StartRelay"]
          /\ UNCHANGED <<room, err>>
     ELSE IF branch[c] = "appended"
          THEN /\ acc' = [acc EXCEPT ![c] = "Rollback"]
               /\ err' = [err EXCEPT ![c] = TRUE]
               /\ UNCHANGED room
          ELSE Return(c, room[c], TRUE)
  /\ UNCHANGED <<branch, passwordBytes, closed, alive, openedLog>>
  /\ UNCHANGED <<regVars, relayVars, janitorVars, envVars>>
  /\ UNCHANGED cliVars

\* go s.handleRoomConnection(room, c), and clientCommunication returns
StartRelay(c) ==
  /\ acc[c] = "StartRelay"
  /\ relay' = [relay EXCEPT ![c] = "Receive"]
  /\ Return(c, room[c], FALSE)
  /\ UNCHANGED <<branch, passwordBytes, openedLog>>
  /\ UNCHANGED <<data, nframes, recvLog>>
  /\ UNCHANGED <<regVars, connVars, janitorVars, envVars>>
  /\ UNCHANGED cliVars

\* the deleteConnFromRoom call after a failed "ok" on the append arm; then
\* clientCommunication returns the error
Rollback(c) ==
  /\ acc[c] = "Rollback"
  /\ mu = Free
  /\ rooms' = RemoveConn(rooms, room[c], c)
  /\ Return(c, room[c], TRUE)
  /\ UNCHANGED <<mu, branch, passwordBytes, openedLog>>
  /\ UNCHANGED <<relayVars, connVars, janitorVars, envVars>>
  /\ UNCHANGED cliVars

\* server.run after clientCommunication returned an error or the ping room:
\* connection.Close() and return
CloseAfterReturn(c) ==
  /\ acc[c] = "Close"
  /\ closed' = [closed EXCEPT ![c] = TRUE]
  /\ acc' = [acc EXCEPT ![c] = "Done"]
  /\ UNCHANGED <<room, err, branch, passwordBytes, alive, outbox, openedLog>>
  /\ UNCHANGED <<regVars, relayVars, janitorVars, envVars>>
  /\ UNCHANGED cliVars

\* a check loop that probes the first occupant of the room with a heartbeat
CheckRoomProbes(c) ==
  /\ acc[c] = "Check"
  /\ mu = Free
  /\ acc' = [acc EXCEPT ![c] = "Done"]
  /\ outbox' = IF room[c] \in DOMAIN rooms /\ rooms[room[c]].conns # <<>>
               THEN Sent(outbox, Head(rooms[room[c]].conns), Ctl("heartbeat"))
               ELSE outbox
  /\ UNCHANGED <<room, err, branch, passwordBytes, openedLog, closed, alive>>
  /\ UNCHANGED <<regVars, relayVars, janitorVars, envVars>>
  /\ UNCHANGED cliVars

\* one iteration of server.run's check loop: the goroutine ends when the
\* room is gone or its conns are not nil; on nil conns it sends nothing
\* (the inner test repeats  conns != nil ), sleeps and tries again
CheckRoom(c) ==
  /\ acc[c] = "Check"
  /\ mu = Free
  /\ acc' = [acc EXCEPT ![c] =
               IF room[c] \notin DOMAIN rooms THEN "Done"
               ELSE IF rooms[room[c]].conns # <<>> THEN "Done"
               ELSE "Check"]
  /\ UNCHANGED <<room, err, branch, passwordBytes, openedLog>>
  /\ UNCHANGED <<regVars, relayVars, connVars, janitorVars, envVars>>
  /\ UNCHANGED cliVars

\* ---- the relay loop: server.handleRoomConnection

\* sender.Receive returns a frame
RelayReceive(c) ==
  /\ relay[c] = "Receive"
  /\ ReceiveWorks(c)
  /\ CanAct /\ Acts
  /\ nframes' = [nframes EXCEPT ![c] = @ + 1]
  /\ data' = [data EXCEPT ![c] = Frame(c, nframes[c] + 1)]
  /\ relay' = [relay EXCEPT ![c] = "Lock"]
  /\ recvLog' = recvLog \cup
       {[from |-> c, n |-> nframes[c] + 1,
         peers |-> {d \in Members(rooms, room[c]) \ {c} :
                      relay[d] \notin {"none", "done"}}]}
  /\ UNCHANGED <<now, openedLog>>
  /\ UNCHANGED <<regVars, accVars, connVars, janitorVars>>
  /\ UNCHANGED cliVars

\* sender.Receive returns an error
RelayReceiveError(c) ==
  /\ relay[c] = "Receive"
  /\ ~ReceiveWorks(c)
  /\ relay' = [relay EXCEPT ![c] = "Leave"]
  /\ UNCHANGED <<data, nframes, recvLog, openedLog>>
  /\ UNCHANGED <<regVars, accVars, connVars, janitorVars, envVars>>
  /\ UNCHANGED cliVars

\* deleteConnFromRoom(room, sender), then the loop returns
RelayLeave(c) ==
  /\ relay[c] = "Leave"
  /\ mu = Free
  /\ rooms' = RemoveConn(rooms, room[c], c)
  /\ relay' = [relay EXCEPT ![c] = "done"]
  /\ UNCHANGED <<mu, data, nframes, recvLog, openedLog>>
  /\ UNCHANGED <<accVars, connVars, janitorVars, envVars>>
  /\ UNCHANGED cliVars

\* s.rooms.Lock(), the lookup of the sender's room and the Sends to its
\* members, all with the lock held
BroadcastLock(c) ==
  /\ relay[c] = "Lock"
  /\ mu = Free
  /\ mu' = c
  /\ outbox' = SendAll(outbox, RoomConns(rooms, room[c]), c, data[c])
  /\ relay' = [relay EXCEPT ![c] = "Unlock"]
  /\ UNCHANGED <<rooms, closed, alive, data, nframes, recvLog, openedLog>>
  /\ UNCHANGED <<accVars, janitorVars, envVars>>
  /\ UNCHANGED cliVars

\* an iteration of the relay loop that ends without the Unlock
BroadcastKeepsLock(c) ==
  /\ relay[c] = "Unlock"
  /\ data' = [data EXCEPT ![c] = NoData]
  /\ relay' = [relay EXCEPT ![c] = "Receive"]
  /\ UNCHANGED <<rooms, mu, nframes, recvLog, openedLog>>
  /\ UNCHANGED <<accVars, connVars, janitorVars, envVars>>
  /\ UNCHANGED cliVars

\* s.rooms.Unlock() at the end of the iteration of the relay loop
BroadcastUnlock(c) ==
  /\ relay[c] = "Unlock"
  /\ mu' = Free
  /\ data' = [data EXCEPT ![c] = NoData]
  /\ relay' = [relay EXCEPT ![c] = "Receive"]
  /\ UNCHANGED <<rooms, nframes, recvLog, openedLog>>
  /\ UNCHANGED <<accVars, connVars, janitorVars, envVars>>
  /\ UNCHANGED cliVars

\* ---- the janitor: server.deleteOldRooms and server.deleteRoom

\* case <-ticker.C: scan the registry under the lock
JanitorScan ==
  /\ jpc = "select"
  /\ ticker
  /\ mu = Free
  /\ ticker' = FALSE
  /\ \E s \in Orderings(Expired(rooms, now)) : roomsToDelete' = s
  /\ jpc' = "sweep"
  /\ UNCHANGED <<stop, openedLog>>
  /\ UNCHANGED <<regVars, accVars, relayVars, connVars, envVars>>
  /\ UNCHANGED cliVars

\* deleteRoom up to  s.rooms.rooms[room] = roomInfo{conns: nil} : Lock, return
\* at once when the room is absent, else close the members and empty the entry
DeleteRoomLock ==
  /\ jpc = "sweep"
  /\ roomsToDelete # <<>>
  /\ mu = Free
  /\ IF Head(roomsToDelete) \notin DOMAIN rooms
     THEN /\ roomsToDelete' = Tail(roomsToDelete)
          /\ UNCHANGED <<rooms, mu, jpc, closed>>
     ELSE /\ mu' = JanitorId
          /\ closed' = CloseAll(closed, rooms[Head(roomsToDelete)].conns)
          /\ rooms' = [rooms EXCEPT ![Head(roomsToDelete)] =
                         [conns |-> <<>>, opened |-> 0]]
          /\ jpc' = "delete"
          /\ UNCHANGED roomsToDelete
  /\ UNCHANGED <<alive, outbox, ticker, stop, openedLog>>
  /\ UNCHANGED <<accVars, relayVars, envVars>>
  /\ UNCHANGED cliVars

\* deleteRoom:  delete(s.rooms.rooms, room)  and the deferred Unlock
DeleteRoomDelete ==
  /\ jpc = "delete"
  /\ rooms' = [x \in DOMAIN rooms \ {Head(roomsToDelete)} |-> rooms[x]]
  /\ mu' = Free
  /\ roomsToDelete' = Tail(roomsToDelete)
  /\ jpc' = "sweep"
  /\ UNCHANGED <<ticker, stop, openedLog>>
  /\ UNCHANGED <<accVars, relayVars, connVars, envVars>>
  /\ UNCHANGED cliVars

\* the sweep is over: back to the select
JanitorSweepDone ==
  /\ jpc = "sweep"
  /\ roomsToDelete = <<>>
  /\ jpc' = "select"
  /\ UNCHANGED <<roomsToDelete, ticker, stop, openedLog>>
  /\ UNCHANGED <<regVars, accVars, relayVars, connVars, envVars>>
  /\ UNCHANGED cliVars

\* a stop channel with a buffer: the send returns at once and the janitor
\* has not taken the value
stopRoomDeletionBuffered ==
  /\ stop = "sending"
  /\ stop' = "returned"
  /\ UNCHANGED <<jpc, roomsToDelete, ticker, openedLog>>
  /\ UNCHANGED <<regVars, accVars, relayVars, connVars, envVars>>
  /\ UNCHANGED cliVars

\* case <-s.stopRoomCleanup: the janitor takes the value stopRoomDeletion is
\* sending on the unbuffered channel, stops the ticker and returns; the send
\* of stopRoomDeletion completes with it
stopRoomDeletion ==
  /\ jpc = "select"
  /\ stop = "sending"
  /\ jpc' = "stopped"
  /\ stop' = "returned"
  /\ UNCHANGED <<roomsToDelete, ticker, openedLog>>
  /\ UNCHANGED <<regVars, accVars, relayVars, connVars, envVars>>
  /\ UNCHANGED cliVars

\* ---- the environment

\* one cleanup interval passes and the ticker fires (ticker.C holds one tick)
Tick ==
  /\ CanAct /\ Acts
  /\ now' = now + 1
  /\ ticker' = TRUE
  /\ UNCHANGED <<jpc, roomsToDelete, stop, openedLog>>
  /\ UNCHANGED <<regVars, accVars, relayVars, connVars>>
  /\ UNCHANGED cliVars

\* server.Accept fails: the accept loop of server.run ends, run returns the
\* error, and the stopRoomDeletion that server.start deferred begins its send
RunReturns ==
  /\ stop = "running"
  /\ CanAct /\ Acts
  /\ stop' = "sending"
  /\ UNCHANGED <<jpc, roomsToDelete, ticker, now, openedLog>>
  /\ UNCHANGED <<regVars, accVars, relayVars, connVars>>
  /\ UNCHANGED cliVars

\* the peer of an accepted connection drops its socket
Drop(c) ==
  /\ acc[c] # "unborn"
  /\ alive[c]
  /\ ~closed[c]
  /\ CanAct /\ Acts
  /\ alive' = [alive EXCEPT ![c] = FALSE]
  /\ UNCHANGED <<closed, outbox, now, openedLog>>
  /\ UNCHANGED <<regVars, accVars, relayVars, janitorVars>>
  /\ UNCHANGED cliVars

\* ---- the client functions PingServer and ConnectToTCPServer, and the
\* ---- server's handshake with such a caller

\* error values and texts
Nil == <<>>
ErrComm == <<"i", "o">>
ErrPake == <<"p", "a", "k", "e">>
ErrCrypt == <<"c", "r", "y", "p", "t">>
NoPong == <<"n", "o", " ", "p", "o", "n", "g">>
\* an error text without the payload
BadResponseNoData(d) ==
  <<"b", "a", "d", " ", "r", "e", "s", "p", "o", "n", "s", "e">>

\* fmt.Errorf("bad response: %s", data)
BadResponse(d) ==
  <<"b", "a", "d", " ", "r", "e", "s", "p", "o", "n", "s", "e", ":", " ">> \o d
\* fmt.Errorf("got bad response: %s", data)
GotBadResponse(d) == <<"g", "o", "t", " ">> \o BadResponse(d)

\* what a Receive of the caller may return: the bytes are a ciphertext under
\* the session key of the plaintext text (enc), or the raw bytes text
RecvFail == [fail |-> TRUE, enc |-> FALSE, text |-> <<>>]
OtherReplies ==
  {[fail |-> FALSE, enc |-> e, text |-> t] :
     e \in BOOLEAN,
     t \in {Pong, Ok, PakeB, BadPassword, <<"p", "o", "n">>,
            <<"a">> \o Sep \o <<"h">>}}

\* the bytes the relay put on the wire for message m on connection c
Wire(c, m) ==
  CASE m.kind = "pong" -> [fail |-> FALSE, enc |-> FALSE, text |-> Pong]
    [] m.kind = "pake2" -> [fail |-> FALSE, enc |-> FALSE, text |-> PakeB]
    [] m.kind = "banner" ->
         [fail |-> FALSE, enc |-> TRUE,
          text |-> BannerMessage(banner, RemoteAddr(c))]
    [] m.kind = "bad password" ->
         [fail |-> FALSE, enc |-> TRUE, text |-> BadPassword]
    [] m.kind = "ok" -> [fail |-> FALSE, enc |-> TRUE, text |-> Ok]
    [] OTHER -> [fail |-> FALSE, enc |-> FALSE, text |-> <<"f">>]

\* the bytes of a reply as Receive returns them
Raw(w) == IF w.enc THEN <<"#">> \o w.text ELSE w.text

\* the messages of the relay that reached the peer of connection c
Delivered(c) == SelectSeq(outbox[c], LAMBDA e : e.ok)

\* what the next Receive of the caller can return (none: it blocks)
Replies ==
  IF call.addr = "other" THEN OtherReplies \cup {RecvFail}
  ELSE IF ~alive[call.conn] THEN {RecvFail}
  ELSE IF call.rd < Len(Delivered(call.conn))
       THEN {Wire(call.conn, Delivered(call.conn)[call.rd + 1].msg)}
  ELSE IF closed[call.conn] THEN {RecvFail}
  ELSE {}

\* the function returns
Returns(e) == call' = [call EXCEPT !.pc = "returned", !.err = e]

\* c.Send(m) of the caller, then on to position pc, or return the error
CallSend(m, pc) ==
  IF call.addr = "other" \/ (alive[call.conn] /\ ~closed[call.conn])
  THEN /\ call' = [call EXCEPT !.pc = pc, !.sent = Append(@, m.kind)]
       /\ c2s' = IF call.addr = "relay"
                 THEN [c2s EXCEPT ![call.conn] = Append(@, m)] ELSE c2s
  ELSE Returns(ErrComm) /\ UNCHANGED c2s

srvVars == <<regVars, accVars, relayVars, connVars, janitorVars, openedLog>>

\* the connection the listener accepts next
NextConn == CHOOSE c \in Conns : acc[c] = "unborn" /\ \A d \in 1..(c - 1) : acc[d] # "unborn"

\* a caller invokes PingServer or ConnectToTCPServer, on the address of the
\* relay, of another service, or on an address nobody listens on; the calls
\* come one after the other
ClientCall ==
  /\ call.pc \in {"idle", "returned"}
  /\ IF call.conn = 0 THEN TRUE ELSE HasReturned(call.conn)
  /\ \E fn \in {"PingServer", "ConnectToTCPServer"},
        addr \in {"relay", "other", "unreachable"},
        pw \in PasswordInputs, r \in RoomNames :
       /\ fn = "PingServer" => (pw = password /\ r = pingRoom)
       /\ IF addr = "relay"
          THEN /\ \E c \in 1..MaxCalls : c \in Conns /\ acc[c] = "unborn"
               /\ UNCHANGED events
          ELSE CanAct /\ Acts
       /\ call' = [NoCall EXCEPT !.fn = fn, !.addr = addr, !.pc = "Dial",
                      !.conn = IF addr = "relay" THEN NextConn ELSE 0,
                      !.password = IF fn = "PingServer" THEN <<>> ELSE pw,
                      !.room = IF fn = "PingServer" THEN NoRoom ELSE r]
  /\ UNCHANGED <<cfgVars, c2s, now, srvVars>>

\* comm.NewConnection of either function
Dial ==
  /\ call.pc = "Dial"
  /\ IF call.addr = "unreachable" THEN Returns(ErrComm)
     ELSE call' = [call EXCEPT !.pc = IF call.fn = "PingServer"
                                      THEN "SendPing" ELSE "SendA"]
  /\ UNCHANGED <<cfgVars, c2s, envVars, srvVars>>

\* a comparison with a prefix of the reply
IsPongPrefix(b) == Len(b) >= 1 /\ IsPrefixOf(b, Pong)

\* bytes.Equal(b, []byte("pong"))
IsPong(b) == b = Pong

\* c.Send([]byte("ping"))
PingSend ==
  /\ call.pc = "SendPing"
  /\ CallSend([kind |-> "ping", text |-> <<>>], "RecvPong")
  /\ UNCHANGED <<cfgVars, envVars, srvVars>>

\* b, err := c.Receive() and the comparison with "pong"
PingReceive ==
  /\ call.pc = "RecvPong"
  /\ \E w \in Replies :
       IF w.fail THEN Returns(ErrComm)
       ELSE call' = [call EXCEPT !.pc = "returned", !.rd = @ + 1,
                                 !.got = Append(@, Raw(w)),
                                 !.err = IF IsPong(Raw(w)) THEN Nil ELSE NoPong]
  /\ UNCHANGED <<cfgVars, c2s, envVars, srvVars>>

PingServer ==
  \/ call.fn = "PingServer" /\ Dial
  \/ PingSend
  \/ PingReceive

\* c.Send(A.Bytes()): PAKE round 1
ConnectSendA ==
  /\ call.pc = "SendA"
  /\ CallSend([kind |-> "pake", text |-> <<>>], "RecvB")
  /\ UNCHANGED <<cfgVars, envVars, srvVars>>

\* Bbytes, err := c.Receive(); A.Update(Bbytes); the session key
ConnectRecvB ==
  /\ call.pc = "RecvB"
  /\ \E w \in Replies :
       IF w.fail THEN Returns(ErrComm)
       ELSE IF Raw(w) # PakeB
            THEN call' = [call EXCEPT !.pc = "returned", !.rd = @ + 1,
                                      !.err = ErrPake]
            ELSE call' = [call EXCEPT !.pc = "SendSalt", !.rd = @ + 1,
                                      !.got = Append(@, Raw(w))]
  /\ UNCHANGED <<cfgVars, c2s, envVars, srvVars>>

\* c.Send(salt)
ConnectSendSalt ==
  /\ call.pc = "SendSalt"
  /\ CallSend([kind |-> "salt", text |-> <<>>], "SendPassword")
  /\ UNCHANGED <<cfgVars, envVars, srvVars>>

\* c.Send(Encrypt(password))
ConnectSendPassword ==
  /\ call.pc = "SendPassword"
  /\ CallSend([kind |-> "password", text |-> call.password], "RecvBanner")
  /\ UNCHANGED <<cfgVars, envVars, srvVars>>

\* receive and decrypt the banner response, require "|||" in it, split it
ConnectRecvBanner ==
  /\ call.pc = "RecvBanner"
  /\ \E w \in Replies :
       IF w.fail THEN Returns(ErrComm)
       ELSE IF ~w.enc
            THEN call' = [call EXCEPT !.pc = "returned", !.rd = @ + 1,
                                      !.err = ErrCrypt]
            ELSE IF ~Contains(w.text, Sep)
                 THEN call' = [call EXCEPT !.pc = "returned", !.rd = @ + 1,
                                           !.got = Append(@, w.text),
                                           !.err = BadResponse(w.text)]
                 ELSE call' = [call EXCEPT !.pc = "SendRoom", !.rd = @ + 1,
                                           !.got = Append(@, w.text),
                                           !.banner = Split(w.text, Sep)[1],
                                           !.ipaddr = Split(w.text, Sep)[2]]
  /\ UNCHANGED <<cfgVars, c2s, envVars, srvVars>>

\* c.Send(Encrypt(room))
ConnectSendRoom ==
  /\ call.pc = "SendRoom"
  /\ CallSend([kind |-> "room", text |-> call.room], "RecvOk")
  /\ UNCHANGED <<cfgVars, envVars, srvVars>>

\* receive and decrypt the room response, require it to be "ok"
ConnectRecvOk ==
  /\ call.pc = "RecvOk"
  /\ \E w \in Replies :
       IF w.fail THEN Returns(ErrComm)
       ELSE IF ~w.enc
            THEN call' = [call EXCEPT !.pc = "returned", !.rd = @ + 1,
                                      !.err = ErrCrypt]
            ELSE call' = [call EXCEPT !.pc = "returned", !.rd = @ + 1,
                                      !.got = Append(@, w.text),
                                      !.err = IF w.text # Ok
                                              THEN GotBadResponse(w.text)
                                              ELSE Nil]
  /\ UNCHANGED <<cfgVars, c2s, envVars, srvVars>>

ConnectToTCPServer ==
  \/ call.fn = "ConnectToTCPServer" /\ Dial
  \/ ConnectSendA
  \/ ConnectRecvB
  \/ ConnectSendSalt
  \/ ConnectSendPassword
  \/ ConnectRecvBanner
  \/ ConnectSendRoom
  \/ ConnectRecvOk

\* server.Accept returns the connection of the call in progress
Listen(c) ==
  /\ call.conn = c
  /\ call.pc # "Dial"
  /\ Accept(c)

\* the Receives of clientCommunication when the peer is such a caller: each
\* returns an error when the connection is dead, blocks while nothing has
\* arrived, and else returns what the caller sent
ServeInit(c) ==
  /\ acc[c] = "AwaitInit"
  /\ IF ~ReceiveWorks(c)
     THEN Return(c, NoRoom, TRUE) /\ UNCHANGED <<outbox, c2s>>
     ELSE /\ c2s[c] # <<>>
          /\ OnInit(c, Head(c2s[c]).kind)
          /\ c2s' = [c2s EXCEPT ![c] = Tail(@)]
  /\ UNCHANGED <<branch, passwordBytes, closed, alive, openedLog, cfgVars, call>>
  /\ UNCHANGED <<regVars, relayVars, janitorVars, envVars>>

ServeSalt(c) ==
  /\ acc[c] = "AwaitSalt"
  /\ IF ~ReceiveWorks(c)
     THEN Return(c, NoRoom, TRUE) /\ UNCHANGED c2s
     ELSE /\ c2s[c] # <<>>
          /\ OnSalt(c)
          /\ c2s' = [c2s EXCEPT ![c] = Tail(@)]
  /\ UNCHANGED <<branch, passwordBytes, openedLog, cfgVars, call>>
  /\ UNCHANGED <<regVars, relayVars, connVars, janitorVars, envVars>>

ServePassword(c) ==
  /\ acc[c] = "AwaitPassword"
  /\ IF ~ReceiveWorks(c)
     THEN Return(c, NoRoom, TRUE) /\ UNCHANGED <<outbox, passwordBytes, c2s>>
     ELSE /\ c2s[c] # <<>>
          /\ OnPassword(c, Head(c2s[c]).text)
          /\ c2s' = [c2s EXCEPT ![c] = Tail(@)]
  /\ UNCHANGED <<branch, closed, alive, openedLog, cfgVars, call>>
  /\ UNCHANGED <<regVars, relayVars, janitorVars, envVars>>

ServeRoom(c) ==
  /\ acc[c] = "AwaitRoom"
  /\ IF ~ReceiveWorks(c)
     THEN Return(c, NoRoom, TRUE) /\ UNCHANGED c2s
     ELSE /\ c2s[c] # <<>>
          /\ OnRoom(c, Head(c2s[c]).text)
          /\ c2s' = [c2s EXCEPT ![c] = Tail(@)]
  /\ UNCHANGED <<branch, passwordBytes, openedLog, cfgVars, call>>
  /\ UNCHANGED <<regVars, relayVars, connVars, janitorVars, envVars>>

Next ==
  \/ \E c \in Conns : Accept(c)
  \/ \E c \in Conns : RecvInit(c)
  \/ \E c \in Conns : RecvSalt(c)
  \/ \E c \in Conns : RecvPassword(c)
  \/ \E c \in Conns : RecvRoom(c)
  \/ \E c \in Conns : Join(c)
  \/ \E c \in Conns : SendOk(c)
  \/ \E c \in Conns : StartRelay(c)
  \/ \E c \in Conns : Rollback(c)
  \/ \E c \in Conns : CloseAfterReturn(c)
  \/ \E c \in Conns : CheckRoom(c)
  \/ \E c \in Conns : RelayReceive(c)
  \/ \E c \in Conns : RelayReceiveError(c)
  \/ \E c \in Conns : RelayLeave(c)
  \/ \E c \in Conns : BroadcastLock(c)
  \/ \E c \in Conns : BroadcastUnlock(c)
  \/ JanitorScan
  \/ DeleteRoomLock
  \/ DeleteRoomDelete
  \/ JanitorSweepDone
  \/ stopRoomDeletion
  \/ Tick
  \/ RunReturns
  \/ \E c \in Conns : Drop(c)

Spec == Init /\ [][Next]_vars

\* a step of the janitor goroutine
Janitor ==
  \/ JanitorScan
  \/ DeleteRoomLock
  \/ DeleteRoomDelete
  \/ JanitorSweepDone
  \/ stopRoomDeletion

\* The scheduling the liveness claims rest on: the janitor goroutine is
\* scheduled whenever it can take a step (it blocks only on the select and on
\* the registry mutex), and a relay loop that holds the mutex releases it.
Fairness ==
  /\ WF_vars(Janitor)
  /\ WF_vars(\E c \in Conns : BroadcastUnlock(c))

FairSpec == Spec /\ Fairness

\* the steps of the accept goroutine of connection c that wait for nothing
\* but the registry mutex
AcceptGoroutine(c) ==
  \/ Join(c)
  \/ SendOk(c)
  \/ StartRelay(c)
  \/ Rollback(c)
  \/ CloseAfterReturn(c)
  \/ CheckRoom(c)

\* the steps of the relay loop of connection c other than the Receive of a
\* frame
RelayLoop(c) ==
  \/ RelayReceiveError(c)
  \/ RelayLeave(c)
  \/ BroadcastLock(c)
  \/ BroadcastUnlock(c)

\* every goroutine of the server is scheduled whenever it can take a step
ServerFairness ==
  /\ Fairness
  /\ \A c \in Conns : WF_vars(AcceptGoroutine(c))
  /\ \A c \in Conns : WF_vars(RelayLoop(c))

ServerFairSpec == Spec /\ ServerFairness

\* ---- the relay when the listener accepts all but the last connection,
\* with every goroutine of the server scheduled fairly
Served == 1..(NumConns - 1)

PairNext ==
  \/ \E c \in Served : Accept(c)
  \/ \E c \in Conns : RecvInit(c)
  \/ \E c \in Conns : RecvSalt(c)
  \/ \E c \in Conns : RecvPassword(c)
  \/ \E c \in Conns : RecvRoom(c)
  \/ \E c \in Conns : Join(c)
  \/ \E c \in Conns : SendOk(c)
  \/ \E c \in Conns : StartRelay(c)
  \/ \E c \in Conns : Rollback(c)
  \/ \E c \in Conns : CloseAfterReturn(c)
  \/ \E c \in Conns : CheckRoom(c)
  \/ \E c \in Conns : RelayReceive(c)
  \/ \E c \in Conns : RelayReceiveError(c)
  \/ \E c \in Conns : RelayLeave(c)
  \/ \E c \in Conns : BroadcastLock(c)
  \/ \E c \in Conns : BroadcastUnlock(c)
  \/ JanitorScan
  \/ DeleteRoomLock
  \/ DeleteRoomDelete
  \/ JanitorSweepDone
  \/ stopRoomDeletion
  \/ Tick
  \/ RunReturns
  \/ \E c \in Conns : Drop(c)

PairSpec == Init /\ [][PairNext]_vars /\ ServerFairness

\* ---- the relay with callers of PingServer and ConnectToTCPServer: no
\* frames are relayed and no cleanup interval passes
\* a step of the server for connection c
Serve(c) ==
  \/ Listen(c)
  \/ ServeInit(c)
  \/ ServeSalt(c)
  \/ ServePassword(c)
  \/ ServeRoom(c)
  \/ Join(c)
  \/ SendOk(c)
  \/ StartRelay(c)
  \/ Rollback(c)
  \/ CloseAfterReturn(c)
  \/ CheckRoom(c)
  \/ RelayReceiveError(c)
  \/ RelayLeave(c)

ClientNext ==
  \/ ClientCall
  \/ PingServer
  \/ ConnectToTCPServer
  \/ \E c \in Conns : Serve(c)
  \/ \E c \in Conns : Drop(c)

\* both functions and the goroutines of the server are scheduled whenever
\* they can take a step
ClientFairness ==
  /\ WF_vars(PingServer)
  /\ WF_vars(ConnectToTCPServer)
  /\ \A c \in Conns : WF_vars(Serve(c))

ClientSpec == Init /\ [][ClientNext]_vars /\ ClientFairness

\* ---- one caller of ConnectToTCPServer and a relay configured with any
\* banner text, on a transport that loses nothing
BannerInit == ServerInit /\ banner \in Banners /\ password = <<"p", "w">>

BannerCall ==
  /\ call.pc = "idle"
  /\ ClientCall
  /\ call'.fn = "ConnectToTCPServer"
  /\ call'.addr = "relay"

BannerNext ==
  \/ BannerCall
  \/ ConnectToTCPServer
  \/ \E c \in Conns : Listen(c)
  \/ \E c \in Conns : ServeInit(c)
  \/ \E c \in Conns : ServeSalt(c)
  \/ \E c \in Conns : ServePassword(c)
  \/ \E c \in Conns : ServeRoom(c)
  \/ \E c \in Conns : Join(c)
  \/ \E c \in Conns : SendOk(c)
  \/ \E c \in Conns : StartRelay(c)
  \/ \E c \in Conns : CheckRoom(c)

BannerSpec == BannerInit /\ [][BannerNext]_vars

\* ---- a relay configured with any password, and the first connection, whose
\* client presents any plaintext, on a transport that loses nothing
PasswordInit == ServerInit /\ banner = <<>> /\ password \in Passwords

\* receive and decrypt the password, whatever the plaintext is
RecvAnyPassword(c) ==
  /\ acc[c] = "AwaitPassword"
  /\ ReceiveWorks(c)
  /\ \E p \in Plaintexts : OnPassword(c, p)
  /\ UNCHANGED <<branch, closed, alive, openedLog>>
  /\ UNCHANGED <<regVars, relayVars, janitorVars, envVars>>
  /\ UNCHANGED cliVars

PasswordNext ==
  \/ Accept(1)
  \/ RecvInit(1)
  \/ RecvSalt(1)
  \/ RecvAnyPassword(1)
  \/ RecvRoom(1)
  \/ Join(1)
  \/ SendOk(1)
  \/ StartRelay(1)
  \/ CloseAfterReturn(1)
  \/ CheckRoom(1)

PasswordSpec == PasswordInit /\ [][PasswordNext]_vars

TypeOK ==
  /\ DOMAIN rooms \subseteq RoomNames
  /\ mu \in {Free, JanitorId} \cup Conns
  /\ now \in 0..MaxEvents
  /\ events \in 0..MaxEvents

\* ---- what the claims speak of

\* how often the server called Send(m) on connection c
Count(ob, m, c) == Cardinality({i \in DOMAIN ob[c] : ob[c][i].msg = m})

\* Send(m) was called on c and failed / succeeded
SendFailed(m, c) == \E i \in DOMAIN outbox[c] : outbox[c][i].msg = m /\ ~outbox[c][i].ok
SendSucceeded(m, c) == \E i \in DOMAIN outbox[c] : outbox[c][i].msg = m /\ outbox[c][i].ok

\* the connection was added to the registry under room r
Joined(c, r) == branch[c] # "none" /\ room[c] = r

\* the connection is in the member list of the room it asked for
InRoom(c) == c \in Members(rooms, room[c])

\* the relay loop of the sender has finished the broadcast of the frame
Finished(f) == data[f.from] # f \/ relay[f.from] = "Unlock"

\* the password the connection presented was decrypted and does not match
WrongPassword(c) ==
  passwordBytes[c] # <<>> /\ TrimSpace(passwordBytes[c]) # password

\* ---- C1
\* C1: for two connections A and B that completed the handshake under the same
\* room name and are both still in that room, every frame received from A
\* while B was attached has been sent to B exactly once when its broadcast is
\* over (and so from B to A); no frame is sent twice to anyone, and no frame
\* reaches a connection that is a member of a room of another name.
C1_ExactlyOnceNoLeak ==
  \A rec \in recvLog :
    LET A == rec.from
        f == Frame(rec.from, rec.n)
    IN /\ \A X \in Conns : Count(outbox, f, X) <= 1
       /\ \A X \in Conns : Count(outbox, f, X) >= 1 =>
            \A r \in DOMAIN rooms : X \in Members(rooms, r) => r = room[A]
       /\ \A B \in rec.peers :
            (Finished(f) /\ InRoom(A) /\ InRoom(B) /\ room[B] = room[A])
               => Count(outbox, f, B) = 1

\* C1 witness: A and B share a room and each got the other's frame once,
\* while a third connection sits in a room of another name and got nothing.
C1_Witness ==
  \E A, B, X \in Conns :
    /\ A # B /\ room[A] = room[B] /\ InRoom(A) /\ InRoom(B)
    /\ InRoom(X) /\ room[X] # room[A]
    /\ Count(outbox, Frame(A, 1), B) = 1 /\ Finished(Frame(A, 1))
    /\ Count(outbox, Frame(B, 1), A) = 1 /\ Finished(Frame(B, 1))
    /\ \A i \in DOMAIN outbox[X] : outbox[X][i].msg.kind # "frame"

\* ---- C2
\* C2: a connection whose decrypted password, trimmed, differs from the
\* configured one is never sent the "ok" acknowledgement nor the banner, and
\* is in no room's member list.
C2_WrongPasswordStaysOut ==
  \A c \in Conns :
    WrongPassword(c) =>
      /\ Count(outbox, Ctl("ok"), c) = 0
      /\ Count(outbox, Ctl("banner"), c) = 0
      /\ ~IsMember(c)

\* C2 witness: a connection presented a wrong password and its accept
\* goroutine has ended.
C2_Witness ==
  \E c \in Conns :
    WrongPassword(c) /\ acc[c] = "Done" /\ Count(outbox, Ctl("bad password"), c) = 1

\* ---- C3
\* C3: when the relay loop of S has gone through the members of its room (it
\* still holds the lock), the frame has been sent once to every member of the
\* room other than S; a frame is never sent to its own sender.
C3_FanOutNoEcho ==
  /\ \A S \in Conns :
       relay[S] = "Unlock" =>
         \A m \in Members(rooms, room[S]) \ {S} : Count(outbox, data[S], m) = 1
  /\ \A rec \in recvLog : Count(outbox, Frame(rec.from, rec.n), rec.from) = 0

\* C3 witness: a broadcast in a room of three attached members has reached
\* the other two.
C3_Witness ==
  \E S \in Conns :
    /\ relay[S] = "Unlock"
    /\ S \in Members(rooms, room[S])
    /\ Cardinality(Members(rooms, room[S])) >= 3
    /\ \A m \in Members(rooms, room[S]) : relay[m] # "none"
    /\ \A m \in Members(rooms, room[S]) \ {S} : SendSucceeded(data[S], m)

\* ---- C4
\* C4: a broadcast in which a Send fails still sends the frame to every
\* other member but the sender, leaves the registry as it was, and the relay
\* loop of the sender goes on to its next Receive.
C4_FailedSendIsolated ==
  [][\A S \in Conns :
       /\ (relay[S] = "Lock" /\ relay'[S] = "Unlock") =>
            /\ rooms' = rooms
            /\ \A m \in Members(rooms, room[S]) \ {S} :
                 Count(outbox', data[S], m) = Count(outbox, data[S], m) + 1
       /\ (relay[S] = "Unlock" /\ relay'[S] # "Unlock") =>
            /\ relay'[S] = "Receive"
            /\ rooms' = rooms]_vars

\* C4 witness: in one broadcast the Send to a member failed and the Send to an
\* attached member that comes later in the list succeeded.
C4_Witness ==
  \E S \in Conns :
    /\ relay[S] = "Unlock"
    /\ \E i, j \in DOMAIN RoomConns(rooms, room[S]) :
         /\ i < j
         /\ SendFailed(data[S], RoomConns(rooms, room[S])[i])
         /\ SendSucceeded(data[S], RoomConns(rooms, room[S])[j])
         /\ relay[RoomConns(rooms, room[S])[j]] = "Receive"

\* ---- C5
\* C5: once the accept goroutine of a connection that presented a wrong
\* password has ended, the server has closed the connection.
C5_RejectedIsClosed ==
  \A c \in Conns : (WrongPassword(c) /\ acc[c] = "Done") => closed[c]

\* ---- C6
\* C6: when the Send of "ok" failed, the connection is in no room once
\* clientCommunication has returned.
C6_FailedOkRolledBack ==
  \A c \in Conns :
    (HasReturned(c) /\ SendFailed(Ctl("ok"), c)) => ~IsMember(c)

\* ---- C7
\* C7: every relayed frame sent to a connection comes after the "ok" sent to it.
C7_OkBeforeFrames ==
  \A c \in Conns : \A i \in DOMAIN outbox[c] :
    outbox[c][i].msg.kind = "frame" =>
      \E j \in 1..(i - 1) : outbox[c][j].msg = Ctl("ok")

\* ---- C8
\* C8: whenever the registry lock is free, every room in the registry has at
\* least one member.
C8_NoEmptyRoom ==
  mu = Free => \A r \in DOMAIN rooms : rooms[r].conns # <<>>

\* C8 witness: the last member of a room left through its relay loop, and the
\* room is gone.
C8_Witness ==
  \E c \in Conns :
    /\ branch[c] = "created" /\ relay[c] = "done"
    /\ room[c] \notin DOMAIN rooms
    /\ mu = Free

\* ---- C9
\* C9: no connection occurs twice in a member list, and no connection is in
\* the member lists of two rooms.
C9_NoDuplicateMember ==
  /\ \A r \in DOMAIN rooms : \A i, j \in DOMAIN rooms[r].conns :
       rooms[r].conns[i] = rooms[r].conns[j] => i = j
  /\ \A c \in Conns : \A r1, r2 \in DOMAIN rooms :
       (c \in Members(rooms, r1) /\ c \in Members(rooms, r2)) => r1 = r2

\* C9 witness: two rooms exist, one of them with two members.
C9_Witness ==
  \E r1, r2 \in DOMAIN rooms :
    r1 # r2 /\ Len(rooms[r1].conns) >= 2 /\ Len(rooms[r2].conns) >= 1

\* ---- C10
\* every connection that was added to room r has left it through its relay loop
AllLeft(r) ==
  /\ \E c \in Conns : Joined(c, r)
  /\ \A c \in Conns : Joined(c, r) => relay[c] = "done"

\* C10: when every connection that joined a room has left through its relay
\* loop, the room is absent, and a join under that name then creates a room
\* with the joining connection as only member and the time of the join as
\* its timestamp.
C10_FreshRoomAfterAllLeft ==
  /\ [](\A r \in RoomNames : AllLeft(r) => r \notin DOMAIN rooms)
  /\ [][\A c \in Conns :
          (acc[c] = "Join" /\ acc'[c] = "SendOk" /\ AllLeft(room[c])) =>
             rooms'[room[c]] = [conns |-> <<c>>, opened |-> now]]_vars

\* C10 witness: a room created at time 0 was left by all its members, and a
\* later join created it again with a later timestamp and a single member.
C10_Witness ==
  \E c \in Conns :
    /\ Joined(c, room[c]) /\ branch[c] = "created"
    /\ room[c] \in DOMAIN rooms
    /\ rooms[room[c]] = [conns |-> <<c>>, opened |-> now]
    /\ now > 0
    /\ <<room[c], 0>> \in openedLog
    /\ \E d \in Conns \ {c} : Joined(d, room[c])
    /\ \A d \in Conns \ {c} : Joined(d, room[c]) => relay[d] = "done"

\* ---- C11
\* the room is in the registry and older than the TTL
OverAge(r) == r \in DOMAIN rooms /\ now - rooms[r].opened > roomTTL

\* C11: a sweep selects every room that is older than the TTL, whatever its
\* members do; deleteRoom closes every member of the room and removes the
\* room; so when the janitor is back at its select with no tick pending, no
\* room is older than the TTL. Under fairness a room older than the TTL is
\* eventually gone, as long as the server has not begun to stop the janitor.
C11_OverAgeRoomsDeleted ==
  /\ []((jpc = "select" /\ ~ticker) => \A r \in RoomNames : ~OverAge(r))
  /\ [][(jpc = "select" /\ jpc' = "sweep") =>
          \A r \in RoomNames : OverAge(r) => r \in Range(roomsToDelete')]_vars
  /\ [][(jpc = "sweep" /\ jpc' = "delete") =>
          \A c \in Members(rooms, Head(roomsToDelete)) : closed'[c]]_vars
  /\ [][(jpc = "delete" /\ jpc' = "sweep") =>
          Head(roomsToDelete) \notin DOMAIN rooms']_vars
  /\ \A r \in RoomNames :
       OverAge(r) ~> (~OverAge(r) \/ stop # "running")

\* C11 witness: the janitor has deleted a room while a member of it, which
\* had relayed a frame, was still in its relay loop; the member is closed.
C11_Witness ==
  \E c \in Conns :
    /\ jpc = "sweep"
    /\ relay[c] = "Receive" /\ nframes[c] >= 1 /\ alive[c]
    /\ closed[c]
    /\ room[c] \notin DOMAIN rooms

\* ---- C12
\* C12: stopRoomDeletion has returned only when the janitor has taken the stop
\* signal; the janitor takes it only at its select, between sweeps, holding
\* no lock; once stopRoomDeletion has returned the janitor takes no further
\* step, so it deletes no room; under fairness a stopRoomDeletion that has
\* begun eventually returns.
C12_StopIsSynchronous ==
  /\ [](stop = "returned" => jpc = "stopped")
  /\ [][(jpc # "stopped" /\ jpc' = "stopped") =>
          (jpc = "select" /\ roomsToDelete = <<>> /\ mu # JanitorId)]_vars
  /\ [][stop = "returned" =>
          (jpc' = "stopped" /\ mu' # JanitorId /\ roomsToDelete' = roomsToDelete)]_vars
  /\ (stop = "sending") ~> (stop = "returned")

\* C12 witness: the janitor swept a room away, closing its member, and was
\* stopped afterwards.
C12_Witness ==
  /\ stop = "returned"
  /\ \E c \in Conns :
       /\ branch[c] # "none" /\ room[c] # pingRoom /\ ~err[c]
       /\ closed[c]
       /\ room[c] \notin DOMAIN rooms

\* ---- C13
\* clientCommunication returned on the ping path for this connection
Pinged(c) ==
  HasReturned(c) /\ room[c] = pingRoom /\ branch[c] = "none" /\ ~err[c]

\* C13: a connection whose first payload was "ping" was sent "pong" and
\* nothing else (no PAKE round 2, no banner, no "ok"), no password of it was
\* examined, it is in no room, it has no relay loop, its goroutine does not
\* enter the check loop, which reads the registry, and ends with the
\* connection closed; the steps of its goroutine leave the registry as it was.
C13_PingBypassesEverything ==
  /\ [](\A c \in Conns :
         Pinged(c) =>
           /\ Len(outbox[c]) = 1 /\ outbox[c][1].msg = Ctl("pong")
           /\ passwordBytes[c] = <<>>
           /\ ~IsMember(c)
           /\ relay[c] = "none"
           /\ acc[c] # "Check"
           /\ (acc[c] = "Done" => closed[c]))
  /\ [][\A c \in Conns :
          ((acc[c] = "AwaitInit" /\ room'[c] = pingRoom)
             \/ (Pinged(c) /\ acc'[c] # acc[c]))
            => (rooms' = rooms /\ mu' = mu)]_vars

\* C13 witness: a ping was answered and its connection closed while a room
\* with a member was in the registry.
C13_Witness ==
  \E c \in Conns :
    /\ Pinged(c) /\ acc[c] = "Done" /\ closed[c]
    /\ SendSucceeded(Ctl("pong"), c)
    /\ \E d \in Conns : IsMember(d) /\ relay[d] = "Receive"

\* ---- C17
\* C17: in the sequence of Sends the server made on a connection, the frames
\* of one sender appear in the order the server received them from that
\* sender, and none appears twice.
C17_PerSenderOrder ==
  \A R \in Conns : \A i, j \in DOMAIN outbox[R] :
    (/\ i < j
     /\ outbox[R][i].msg.kind = "frame"
     /\ outbox[R][j].msg.kind = "frame"
     /\ outbox[R][i].msg.from = outbox[R][j].msg.from)
      => outbox[R][i].msg.n < outbox[R][j].msg.n

\* C17 witness: a recipient that stayed in the sender's room was sent two
\* frames of that sender, both with success.
C17_Witness ==
  \E S, R \in Conns :
    /\ S # R /\ room[R] = room[S] /\ InRoom(S) /\ InRoom(R)
    /\ relay[R] = "Receive"
    /\ SendSucceeded(Frame(S, 1), R)
    /\ SendSucceeded(Frame(S, 2), R)

\* ---- C18
\* the control messages the server sent on the connection, in order
ControlSent(c) == SelectSeq(outbox[c], LAMBDA e : e.msg.kind # "frame")

\* the steps of clientCommunication for the connection came in the order
\* PAKE round 2, password check, banner, join, "ok", relay loop
HandshakeInOrder(c) ==
  LET ctl == ControlSent(c)
      kinds == [i \in DOMAIN ctl |-> ctl[i].msg.kind]
  IN /\ \/ IsPrefixOf(kinds, <<"pake2", "banner", "ok">>)
        \/ IsPrefixOf(kinds, <<"pake2", "bad password">>)
        \/ IsPrefixOf(kinds, <<"pong">>)
     /\ \A i \in DOMAIN ctl : i < Len(ctl) => ctl[i].ok
     /\ Count(outbox, Ctl("banner"), c) >= 1 => PasswordMatches(passwordBytes[c])
     /\ branch[c] # "none" => SendSucceeded(Ctl("banner"), c)
     /\ IsMember(c) => branch[c] # "none"
     /\ Count(outbox, Ctl("ok"), c) >= 1 => branch[c] # "none"
     /\ relay[c] # "none" => SendSucceeded(Ctl("ok"), c)

\* C18: the server's steps for a connection come in the order of the
\* handshake, and no goroutine of the connection reads or modifies the
\* registry (join, rollback, check loop, leave, broadcast) unless the
\* password the connection presented matched.
C18_AuthBeforeRoom ==
  /\ [](\A c \in Conns : HandshakeInOrder(c))
  /\ [][\A c \in Conns :
          (\/ acc[c] = "Join" /\ acc'[c] # "Join"
           \/ acc[c] = "Rollback" /\ acc'[c] # "Rollback"
           \/ acc[c] = "Check" /\ acc'[c] # "Check"
           \/ relay[c] = "Leave" /\ relay'[c] # "Leave"
           \/ relay[c] = "Lock" /\ relay'[c] # "Lock")
            => PasswordMatches(passwordBytes[c])]_vars

\* ---- C20
\* C20: no Send and no Close on a connection is made by a goroutine while it
\* holds the registry lock: a step that takes the lock and keeps it calls
\* neither.
C20_NoSocketIOUnderLock ==
  [][(mu = Free /\ mu' # Free) => (outbox' = outbox /\ closed' = closed)]_vars

\* ---- C14
\* a call of PingServer has returned
PingDone == call.fn = "PingServer" /\ call.pc = "returned"

\* C14: PingServer returns nil exactly when the dial and the Send of "ping"
\* succeeded, the Receive succeeded and returned the four bytes "pong";
\* against the relay, on a connection that did not break, it returns nil;
\* on an address nobody listens on it returns an error.
C14_PingNilIffPong ==
  PingDone =>
    /\ (call.err = Nil) <=>
          (call.sent = <<"ping">> /\ Len(call.got) = 1 /\ call.got[1] = Pong)
    /\ (call.addr = "relay" /\ alive[call.conn]) => call.err = Nil
    /\ call.addr = "unreachable" => call.err # Nil

\* C14 witness: a ping of the relay returned nil, after a caller had joined
\* a room with the password.
C14_Witness ==
  /\ PingDone /\ call.addr = "relay" /\ call.err = Nil
  /\ \E d \in Conns : IsMember(d)

\* ---- C15
\* a call of ConnectToTCPServer has returned
ConnectDone == call.fn = "ConnectToTCPServer" /\ call.pc = "returned"

\* C15: (call.got holds Bbytes, then the decrypted banner response, then the
\* decrypted room response) when the decrypted banner response lacks "|||",
\* or the decrypted room response is not "ok", ConnectToTCPServer returns an
\* error whose text contains that payload; a room name is sent only after a
\* banner response with "|||"; and a caller whose password the relay
\* rejected gets an error that contains "bad password".
C15_BadResponsesSurface ==
  /\ "room" \in Range(call.sent) =>
        (Len(call.got) >= 2 /\ Contains(call.got[2], Sep))
  /\ ConnectDone =>
        /\ (Len(call.got) = 2 /\ ~Contains(call.got[2], Sep)) =>
              (call.err # Nil /\ Contains(call.err, call.got[2]))
        /\ (Len(call.got) = 3 /\ call.got[3] # Ok) =>
              (call.err # Nil /\ Contains(call.err, call.got[3]))
        /\ (/\ call.addr = "relay"
            /\ alive[call.conn]
            /\ SendSucceeded(Ctl("bad password"), call.conn)) =>
              (Contains(call.err, BadPassword) /\ "room" \notin Range(call.sent))

\* C15 witness: the relay rejected the password of a caller, and the call
\* returned the error with the relay's text.
C15_Witness ==
  /\ ConnectDone /\ call.addr = "relay"
  /\ WrongPassword(call.conn)
  /\ call.err = BadResponse(BadPassword)

\* ---- C16
\* the caller of ConnectToTCPServer is past the banner step: the relay
\* accepted its password and it got a banner response with "|||"
Authenticated ==
  /\ call.fn = "ConnectToTCPServer" /\ call.addr = "relay"
  /\ Len(call.got) >= 2 /\ Contains(call.got[2], Sep)

\* C16 as claimed: for every banner text the relay is configured with, an
\* authenticated caller holds that text as banner and the remote address the
\* relay saw as ipaddr.
C16_BannerRoundTrip ==
  Authenticated =>
    (call.banner = banner /\ call.ipaddr = RemoteAddr(call.conn))

\* C16 amended: the same for every banner text that is not empty, does not
\* contain "|||" and does not end in "|".
C16_BannerRoundTripAmended ==
  (/\ Authenticated
   /\ banner # <<>>
   /\ ~Contains(banner, Sep)
   /\ banner[Len(banner)] # "|")
    => (call.banner = banner /\ call.ipaddr = RemoteAddr(call.conn))

\* C16 witness: a banner text with a bar in it made the round trip, and the
\* call returned nil.
C16_Witness ==
  /\ Authenticated /\ ConnectDone /\ call.err = Nil
  /\ Len(banner) >= 2 /\ "|" \in Range(banner)
  /\ call.banner = banner /\ call.ipaddr = RemoteAddr(call.conn)

\* ---- C19
\* the payloads clientCommunication expects at each of its Receives
Expected(pos) ==
  CASE pos = "AwaitInit" -> {"pake", "ping"}
    [] pos = "AwaitSalt" -> {"salt"}
    [] pos = "AwaitPassword" -> {"password"}
    [] pos = "AwaitRoom" -> {"room"}
    [] OTHER -> {}

\* both ends of the connection of the call wait for the other to send
BothWait ==
  /\ call.addr = "relay"
  /\ call.pc \in {"RecvPong", "RecvB", "RecvBanner", "RecvOk"}
  /\ Replies = {}
  /\ acc[call.conn] \in {"AwaitInit", "AwaitSalt", "AwaitPassword", "AwaitRoom"}
  /\ c2s[call.conn] = <<>>

\* C19: the two sides never both wait for the other; what the relay finds
\* at each of its Receives is the payload of that step; when
\* ConnectToTCPServer returns nil on a connection to the relay, the
\* connection is in the member list of the room asked for, the relay has
\* sent it "ok", and its relay loop runs or is the next step of its accept
\* goroutine; and every call with the configured password on the relay
\* leads to that: a nil result, membership and a running relay loop, unless
\* the connection breaks.
C19_HandshakeCompletes ==
  /\ [](~BothWait)
  /\ [](\A c \in Conns :
         (acc[c] \in {"AwaitInit", "AwaitSalt", "AwaitPassword", "AwaitRoom"}
            /\ c2s[c] # <<>>) => Head(c2s[c]).kind \in Expected(acc[c]))
  /\ [][(/\ call.pc # "returned" /\ call'.pc = "returned"
         /\ call.fn = "ConnectToTCPServer" /\ call.addr = "relay"
         /\ call'.err = Nil) =>
           (/\ call.conn \in Members(rooms', call.room)
            /\ SendSucceeded(Ctl("ok"), call.conn)
            /\ (acc'[call.conn] = "StartRelay"
                  \/ relay'[call.conn] = "Receive"))]_vars
  /\ \A c \in 1..MaxCalls :
       (/\ call.conn = c /\ call.fn = "ConnectToTCPServer"
        /\ call.pc = "Dial" /\ PasswordMatches(call.password))
         ~> (\/ ~alive[c]
             \/ /\ call.conn = c /\ call.pc = "returned" /\ call.err = Nil
                /\ c \in Members(rooms, call.room)
                /\ relay[c] = "Receive")

\* C19 witness: a second caller has joined the room of the first; its call
\* returned nil and its relay loop runs.
C19_Witness ==
  /\ ConnectDone /\ call.addr = "relay" /\ call.err = Nil
  /\ call.conn = 2
  /\ branch[2] = "appended"
  /\ relay[2] = "Receive" /\ relay[1] = "Receive"
  /\ Members(rooms, call.room) = {1, 2}

\* ---- C21
\* the one byte of the probe of server.run's check loop
Heartbeat == Ctl("heartbeat")

\* C21: when the check loop of the accept goroutine of a joined connection
\* ends while the room is in the registry, the first occupant of the room has
\* been sent the heartbeat in that step, and if that Send failed the room is
\* gone from the registry and all its members are closed.
C21_ProbeFirstOccupant ==
  [][\A c \in Conns :
       (acc[c] = "Check" /\ acc'[c] = "Done" /\ room[c] \in DOMAIN rooms) =>
         LET first == Head(rooms[room[c]].conns)
         IN /\ Count(outbox', Heartbeat, first)
                 = Count(outbox, Heartbeat, first) + 1
            /\ ~SendWorks(first) =>
                 /\ room[c] \notin DOMAIN rooms'
                 /\ \A d \in Members(rooms, room[c]) : closed'[d]]_vars

\* ---- C22
\* the relay loop of connection c is between the Receive that failed and the
\* return of deleteConnFromRoom
Leaving(c) == relay[c] = "Leave"

\* C22: the step on which the Receive of a relay loop fails sends nothing and
\* leads to deleteConnFromRoom; that call removes the connection from its
\* room, deletes the room when it was the last member, sends nothing and ends
\* the loop; a connection stops being a member only on such a step, on a
\* step of deleteRoom or on the rollback after a failed "ok"; and every
\* member whose socket has failed is eventually no member any more.  The last
\* part is stated in its weakest form: no behaviour ends with the janitor
\* stopped and a member whose socket has failed still in the registry (while
\* the janitor runs, a sweep deletes the room once it is over age).
C22_ReceiveErrorLeaves ==
  /\ [][\A c \in Conns :
          (relay[c] = "Receive" /\ relay'[c] # "Receive" /\ ~ReceiveWorks(c))
            => (Leaving(c)' /\ outbox' = outbox /\ rooms' = rooms)]_vars
  /\ [][\A c \in Conns :
          (Leaving(c) /\ ~Leaving(c)') =>
            /\ relay'[c] = "done"
            /\ outbox' = outbox
            /\ c \notin Members(rooms', room[c])
            /\ (Members(rooms, room[c]) \subseteq {c}) => room[c] \notin DOMAIN rooms']_vars
  /\ [][\A c \in Conns :
          (IsMember(c) /\ ~IsMember(c)') =>
            \/ Leaving(c) /\ relay'[c] = "done"
            \/ acc[c] = "Rollback" /\ acc'[c] # "Rollback"
            \/ jpc = "sweep" /\ jpc' = "delete" /\ closed'[c]]_vars
  /\ \A c \in Conns :
       []<>(~(IsMember(c) /\ ~ReceiveWorks(c)) \/ jpc # "stopped")

\* ---- C23
\* C23: when deleteRoom, called by the janitor, finds the room in the
\* registry and closes its members, the room is older than the TTL at that
\* moment.
C23_DeletesOnlyOverAge ==
  [][(jpc = "sweep" /\ jpc' = "delete") => OverAge(Head(roomsToDelete))]_vars

\* ---- C24
\* C24: a relay loop that sends the frame it holds to anyone is the loop of a
\* connection that is, at that moment, a member of the room it sends to.
C24_SenderIsMember ==
  [][\A c \in Conns :
       (relay[c] = "Lock" /\ relay'[c] = "Unlock" /\ outbox' # outbox)
         => c \in Members(rooms, room[c])]_vars

\* ---- C25
\* C25: whatever room name it asked for, a connection to which the "ok" of
\* the join was sent is closed by the server only on the step of deleteRoom
\* that closes the members of its room.
C25_JoinedClosedOnlyByDeleteRoom ==
  [][\A c \in Conns :
       (~closed[c] /\ closed'[c] /\ SendSucceeded(Ctl("ok"), c)) =>
         /\ jpc = "sweep" /\ jpc' = "delete"
         /\ c \in Members(rooms, Head(roomsToDelete))]_vars

\* ---- C26
\* clientCommunication is at one of its Receives before the join
BeforeJoin(c) ==
  acc[c] \in {"AwaitInit", "AwaitSalt", "AwaitPassword", "AwaitRoom"}

\* C26: when clientCommunication returns an error before the join, that step
\* changes neither the registry nor the open or closed state or the relay
\* loop of any connection, and the accept goroutine goes on to
\* connection.Close(); that Close closes this connection and nothing else; so
\* when the goroutine is done the connection is closed and was never a member.
C26_HandshakeFailureIsLocal ==
  /\ [][\A c \in Conns :
          (BeforeJoin(c) /\ ~BeforeJoin(c)' /\ err'[c]) =>
            /\ acc'[c] = "Close"
            /\ rooms' = rooms /\ mu' = mu
            /\ closed' = closed /\ relay' = relay]_vars
  /\ [][\A c \in Conns :
          (acc[c] = "Close" /\ acc'[c] # "Close" /\ branch[c] = "none") =>
            /\ closed'[c]
            /\ \A d \in Conns \ {c} : closed'[d] = closed[d]
            /\ rooms' = rooms /\ mu' = mu /\ relay' = relay]_vars
  /\ [](\A c \in Conns :
         (acc[c] = "Done" /\ err[c] /\ branch[c] = "none") =>
           (closed[c] /\ ~IsMember(c) /\ relay[c] = "none"))

\* C26 witness: the handshake of one connection failed and the connection is
\* closed, while two others are members of a room, open, with their relay
\* loops running.
C26_Witness ==
  \E c \in Conns :
    /\ acc[c] = "Done" /\ err[c] /\ branch[c] = "none" /\ closed[c]
    /\ \A d \in Conns \ {c} :
         IsMember(d) /\ ~closed[d] /\ alive[d] /\ relay[d] = "Receive"

\* ---- C27
\* the password test of connection c has been made, and its outcome
Accepted(c) == Count(outbox, Ctl("banner"), c) >= 1
Rejected(c) == Count(outbox, Ctl("bad password"), c) >= 1

\* the server accepts exactly the plaintexts that equal the configured
\* password once their leading and trailing whitespace is removed
AcceptsTrimmed ==
  \A c \in Conns :
    /\ Accepted(c) => TrimSpace(passwordBytes[c]) = password
    /\ Rejected(c) => TrimSpace(passwordBytes[c]) # password
    /\ ~(Accepted(c) /\ Rejected(c))

\* C27: the server accepts exactly the plaintexts that equal the configured
\* password once their leading and trailing whitespace is removed; and for
\* every configured password, a client that presented exactly that password
\* is accepted.
C27_ExactPasswordAccepted ==
  /\ AcceptsTrimmed
  /\ \A c \in Conns :
       ((Accepted(c) \/ Rejected(c)) /\ passwordBytes[c] = password)
         => Accepted(c)

\* ---- C28
\* the accept goroutine of connection c makes its join on this step
Joins(c) == acc[c] = "Join" /\ acc'[c] # "Join"

\* C28: the join happens with the registry lock free before and after; it
\* creates an absent room with the joining connection as sole member and the
\* current time as opened, and else puts the connection at the end of the
\* member list, leaving the members before it and opened as they were; every
\* other room is unchanged. The listener hands out connections one after
\* the other, so join order is the order of the connection numbers: every
\* member list is in that order, at all times.
C28_JoinCreatesOrAppends ==
  /\ [][\A c \in Conns : Joins(c) =>
          LET r == room[c]
          IN /\ mu = Free /\ mu' = Free
             /\ DOMAIN rooms' = DOMAIN rooms \cup {r}
             /\ \A x \in DOMAIN rooms \ {r} : rooms'[x] = rooms[x]
             /\ r \notin DOMAIN rooms =>
                  rooms'[r] = [conns |-> <<c>>, opened |-> now]
             /\ r \in DOMAIN rooms =>
                  /\ Len(rooms'[r].conns) = Len(rooms[r].conns) + 1
                  /\ rooms'[r].conns[Len(rooms'[r].conns)] = c
                  /\ \A i \in 1..Len(rooms[r].conns) :
                       rooms'[r].conns[i] = rooms[r].conns[i]
                  /\ rooms'[r].opened = rooms[r].opened]_vars
  /\ [](\A r \in DOMAIN rooms :
          \A i, j \in 1..Len(rooms[r].conns) :
            i < j => rooms[r].conns[i] < rooms[r].conns[j])

\* C28 witness: every connection the listener accepted is a member of one
\* room, in join order, and the room still has the timestamp of its creation
\* although time has passed.
C28_Witness ==
  \E r \in DOMAIN rooms :
    /\ rooms[r].conns = [i \in 1..NumConns |-> i]
    /\ rooms[r].opened = 0 /\ now > 0
    /\ \A c \in Conns : branch[c] = IF c = 1 THEN "created" ELSE "appended"

\* ---- C29
\* deleteConnFromRoom(room[c], c) is called and returns on this step: by the
\* relay loop of c after a failed Receive, or by the rollback of its join
Removes(c) ==
  \/ relay[c] = "Leave" /\ relay'[c] # "Leave"
  \/ acc[c] = "Rollback" /\ acc'[c] # "Rollback"

\* C29: deleteConnFromRoom(room, conn) closes nothing and changes no other
\* room; it changes nothing at all when the room is absent or conn is not a
\* member of it; else it deletes the room exactly when conn was its only
\* member, and otherwise takes conn out of the member list, leaving the
\* other members in their order and opened as it was.
C29_DeleteConnFromRoom ==
  [][\A c \in Conns : Removes(c) =>
       LET r == room[c]
       IN /\ closed' = closed /\ alive' = alive
          /\ DOMAIN rooms' \subseteq DOMAIN rooms
          /\ \A x \in DOMAIN rooms \ {r} :
               x \in DOMAIN rooms' /\ rooms'[x] = rooms[x]
          /\ c \notin Members(rooms, r) => rooms' = rooms
          /\ c \in Members(rooms, r) =>
               /\ r \in DOMAIN rooms' <=> Members(rooms, r) # {c}
               /\ r \in DOMAIN rooms' =>
                    LET old == rooms[r].conns
                        new == rooms'[r].conns
                        k == CHOOSE i \in 1..Len(old) : old[i] = c
                    IN /\ rooms'[r].opened = rooms[r].opened
                       /\ Len(new) = Len(old) - 1
                       /\ \A i \in 1..Len(new) :
                            new[i] = IF i < k THEN old[i] ELSE old[i + 1]]_vars

\* C29 witness: the janitor evicted connection 1, the two others created the
\* room anew under the same name, and then the relay loop of connection 1
\* made its deleteConnFromRoom: the new room has its two members and they
\* are open.
C29_Witness ==
  /\ relay[1] = "done" /\ closed[1] /\ branch[1] = "created"
  /\ room[1] \in DOMAIN rooms
  /\ rooms[room[1]].conns = <<2, 3>>
  /\ ~closed[2] /\ ~closed[3]

\* ---- C30
\* the room deleteRoom has been called for
Doomed == Head(roomsToDelete)

\* C30: deleteRoom on a room that is in the registry takes the lock, closes
\* every member of the room and no other connection, and removes the entry
\* before it gives the lock back; while it holds the lock nobody else changes
\* the registry; no other room is changed; and deleteRoom on a room that is
\* not in the registry changes nothing and closes nothing.
C30_DeleteRoom ==
  /\ [][(jpc = "sweep" /\ jpc' = "delete") =>
          /\ mu = Free /\ mu' = JanitorId
          /\ \A c \in Conns :
               closed'[c] = (closed[c] \/ c \in Members(rooms, Doomed))
          /\ \A x \in DOMAIN rooms \ {Doomed} :
               x \in DOMAIN rooms' /\ rooms'[x] = rooms[x]]_vars
  /\ [][(jpc = "delete" /\ jpc' # "delete") =>
          /\ mu = JanitorId /\ mu' = Free
          /\ DOMAIN rooms' = DOMAIN rooms \ {Doomed}
          /\ \A x \in DOMAIN rooms' : rooms'[x] = rooms[x]
          /\ closed' = closed]_vars
  /\ [][mu = JanitorId =>
          (rooms' = rooms \/ (jpc = "delete" /\ jpc' # "delete"))]_vars
  /\ [][(jpc = "sweep" /\ jpc' = "sweep" /\ roomsToDelete' # roomsToDelete) =>
          /\ Doomed \notin DOMAIN rooms
          /\ rooms' = rooms /\ closed' = closed /\ mu' = mu]_vars
  /\ [](jpc = "delete" <=> mu = JanitorId)

\* C30 witness: deleteRoom has deleted a room of two members, both closed by
\* it, while the room of the third connection and that connection are as they
\* were.
C30_Witness ==
  /\ jpc \in {"sweep", "select"}
  /\ branch[1] = "created" /\ branch[2] = "appended" /\ branch[3] = "created"
  /\ room[1] = room[2] /\ room[1] \notin DOMAIN rooms
  /\ closed[1] /\ closed[2] /\ ~err[1] /\ ~err[2]
  /\ acc[1] = "Done" /\ acc[2] = "Done"
  /\ room[3] \in DOMAIN rooms /\ rooms[room[3]].conns = <<3>>
  /\ ~closed[3]

\* ---- C31
\* C31: a room enters the registry with opened set to the current time; as
\* long as its entry is in the registry and deleteRoom is not in the middle
\* of removing it, no step changes its opened; the clock never goes back; so
\* every room any goroutine can see under the lock has the timestamp of its
\* creation, and that is not in the future.
C31_OpenedSetOnce ==
  /\ [][\A r \in RoomNames :
          (r \notin DOMAIN rooms /\ r \in DOMAIN rooms') =>
            rooms'[r].opened = now]_vars
  /\ [][\A r \in RoomNames :
          (r \in DOMAIN rooms /\ r \in DOMAIN rooms' /\ mu' # JanitorId) =>
            rooms'[r].opened = rooms[r].opened]_vars
  /\ [][now' >= now]_vars
  /\ [](mu # JanitorId =>
          \A r \in DOMAIN rooms :
            <<r, rooms[r].opened>> \in openedLog /\ rooms[r].opened <= now)

\* C31 witness: a room created at time 0 has got a second member and has
\* relayed a frame, a cleanup interval has passed, and its opened is still 0.
C31_Witness ==
  \E r \in DOMAIN rooms :
    /\ rooms[r].conns = <<1, 2>> /\ rooms[r].opened = 0
    /\ now = 1 /\ mu = Free
    /\ \E rec \in recvLog : Count(outbox, Frame(rec.from, rec.n), 2) = 1

\* ---- C32
\* clientCommunication returns for connection c on this step
ReturnsNow(c) == ~HasReturned(c) /\ HasReturned(c)'

\* C32: when clientCommunication returns a nil error, either it took the ping
\* path (it returns the ping room, has sent "pong" and joined nothing), or
\* the connection has joined the room it returns and is still a member of it
\* unless deleteRoom has closed it since, has been sent "ok" and its relay
\* loop has been started; in particular it returns an error after a wrong
\* password.
C32_NilOnlyOnPingOrJoin ==
  [][\A c \in Conns :
       (ReturnsNow(c) /\ ~err'[c]) =>
         \/ /\ room'[c] = pingRoom
            /\ branch'[c] = "none"
            /\ Count(outbox', Ctl("pong"), c) = 1
            /\ ~IsMember(c)'
         \/ /\ branch'[c] # "none"
            /\ c \in Members(rooms', room'[c]) \/ closed'[c]
            /\ SendSucceeded(Ctl("ok"), c)'
            /\ relay'[c] # "none"]_vars

\* ---- C33
\* C33: whenever the check loop of an accept goroutine can take the lock,
\* the room it looks up is absent or has conns that are not nil, so the
\* iteration it makes is its last; that iteration ends the goroutine and
\* changes nothing of the registry, sends nothing, closes nothing and leaves
\* the janitor alone; no heartbeat is ever sent; and once clientCommunication
\* has returned, the accept goroutine eventually ends.
C33_CheckLoopRunsOnce ==
  /\ [](\A c \in Conns :
          (acc[c] = "Check" /\ mu = Free) =>
            (room[c] \notin DOMAIN rooms \/ rooms[room[c]].conns # <<>>))
  /\ [][\A c \in Conns :
          (acc[c] = "Check" /\ acc'[c] # "Check") =>
            /\ acc'[c] = "Done"
            /\ mu = Free /\ mu' = Free
            /\ rooms' = rooms /\ outbox' = outbox /\ closed' = closed
            /\ jpc' = jpc /\ roomsToDelete' = roomsToDelete]_vars
  /\ [](\A c \in Conns : Count(outbox, Heartbeat, c) = 0)
  /\ \A c \in Conns : HasReturned(c) ~> (acc[c] = "Done")

\* C33 witness: the room of a connection that joined it is gone, evicted by
\* the janitor while the first occupant was alive, and the accept goroutines
\* of both its members have ended; the registry is empty.
C33_Witness ==
  /\ branch[1] = "created" /\ branch[2] = "appended"
  /\ room[1] = room[2] /\ room[1] # pingRoom
  /\ acc[1] = "Done" /\ acc[2] = "Done" /\ ~err[1] /\ ~err[2]
  /\ alive[1] /\ alive[2]
  /\ DOMAIN rooms = {}

\* ---- C34
\* the goroutine is at a Lock of the registry mutex
AcceptWaits(c) == acc[c] \in {"Join", "Rollback", "Check"}
RelayWaits(c) == relay[c] \in {"Leave", "Lock"}
JanitorWaits ==
  \/ jpc = "select" /\ ticker
  \/ jpc = "sweep" /\ roomsToDelete # <<>>

\* C34: the mutex is taken only when it is free; its holder is a relay loop
\* at the Unlock that ends its broadcast, or the janitor inside deleteRoom,
\* and the next step of the holder gives it back; so a held mutex becomes
\* free, and every goroutine that is at a Lock gets past it.
C34_LockNeverDeadlocks ==
  /\ [][mu' # mu => (mu = Free \/ mu' = Free)]_vars
  /\ [](\A c \in Conns : mu = c => relay[c] = "Unlock")
  /\ [](mu = JanitorId <=> jpc = "delete")
  /\ [][\A c \in Conns : (mu = c /\ relay'[c] # relay[c]) => mu' = Free]_vars
  /\ [][(mu = JanitorId /\ jpc' # jpc) => mu' = Free]_vars
  /\ (mu # Free) ~> (mu = Free)
  /\ \A c \in Conns : AcceptWaits(c) ~> ~AcceptWaits(c)
  /\ \A c \in Conns : RelayWaits(c) ~> ~RelayWaits(c)
  /\ JanitorWaits ~> (~JanitorWaits \/ jpc = "stopped")

\* C34 witness: a relay loop holds the mutex for its broadcast while the
\* accept goroutine of another connection waits to join and the janitor
\* waits to scan.
C34_Witness ==
  /\ mu = 1 /\ relay[1] = "Unlock"
  /\ acc[2] = "Join"
  /\ jpc = "select" /\ ticker

====
